---- MODULE Spec2Model ----
(***************************************************************************)
(* Model of backend/main.py of ScheduleToCalendar: the upload_schedule     *)
(* request handler and its helpers clean_response, parse_schedule and      *)
(* generate_ics.                                                           *)
(*                                                                         *)
(* Text is a sequence of one-character strings.  Dates are proleptic       *)
(* Gregorian ordinals (datetime.date.toordinal), times of day are minutes  *)
(* after midnight.                                                         *)
(***************************************************************************)
EXTENDS Integers, Sequences, FiniteSets, TLC

(***************************************************************************)
(* Python string primitives used by clean_response.                        *)
(***************************************************************************)
Whitespace == {" ", "\n"}

RECURSIVE LStrip(_)
LStrip(s) ==
    IF s # <<>> /\ Head(s) \in Whitespace THEN LStrip(Tail(s)) ELSE s

RECURSIVE RStrip(_)
RStrip(s) ==
    IF s # <<>> /\ s[Len(s)] \in Whitespace
    THEN RStrip(SubSeq(s, 1, Len(s) - 1))
    ELSE s

\* str.strip()
Strip(s) == RStrip(LStrip(s))

\* s[i:] for i >= 0
DropFirst(s, i) == SubSeq(s, i + 1, Len(s))

\* s[i:-j] for i, j > 0
Slice(s, i, j) == SubSeq(s, i + 1, Len(s) - j)

\* str.startswith(p)
StartsWith(s, p) == Len(s) >= Len(p) /\ SubSeq(s, 1, Len(p)) = p

\* str.endswith(p)
EndsWith(s, p) ==
    Len(s) >= Len(p) /\ SubSeq(s, Len(s) - Len(p) + 1, Len(s)) = p

LowerChar(c) ==
    CASE c = "J" -> "j"
      [] c = "S" -> "s"
      [] c = "O" -> "o"
      [] c = "N" -> "n"
      [] OTHER -> c

\* str.lower()
Lower(s) == [i \in 1..Len(s) |-> LowerChar(s[i])]

\* str.replace(c, "")
RECURSIVE RemoveChar(_, _)
RemoveChar(s, c) ==
    IF s = <<>> THEN <<>>
    ELSE IF Head(s) = c THEN RemoveChar(Tail(s), c)
    ELSE <<Head(s)>> \o RemoveChar(Tail(s), c)

\* The backtick character (written "bt": the TLA+ lexer has no backtick in
\* string literals).
BT == "bt"

Fence == <<BT, BT, BT>>
JsonWord == <<"j", "s", "o", "n">>

(***************************************************************************)
(* clean_response                                                          *)
(***************************************************************************)
StripFence(cleaned) ==
    IF StartsWith(cleaned, Fence) /\ EndsWith(cleaned, Fence)
    THEN Strip(Slice(cleaned, 3, 3))
    ELSE cleaned

StripColon(cleaned) ==
    IF StartsWith(cleaned, <<":">>) THEN Strip(DropFirst(cleaned, 1)) ELSE cleaned

StripLanguageTag(cleaned) ==
    IF StartsWith(Lower(cleaned), JsonWord)
    THEN StripColon(Strip(DropFirst(cleaned, Len(JsonWord))))
    ELSE cleaned

clean_response(response_str) ==
    RemoveChar(StripLanguageTag(StripFence(Strip(response_str))), BT)

(***************************************************************************)
(* Decoded values.  demjson3.decode returns a Python value: a dict, a      *)
(* list, a str, a number or None.  Every value is a record of one shape;   *)
(* a dict records which keys it has and the value under "events".          *)
(***************************************************************************)
PyList(items) == [kind |-> "list", items |-> items]
PyOther(kind) == [kind |-> kind, items |-> <<>>]
PyDict(keys, ev) == [kind |-> "dict", keys |-> keys, events |-> ev]
PyNonDict(kind) == [kind |-> kind, keys |-> {}, events |-> PyOther("None")]

ParseOk(evs) == [ok |-> TRUE, events |-> evs, error |-> "none"]
ParseError(msg) == [ok |-> FALSE, events |-> <<>>, error |-> msg]

(***************************************************************************)
(* Dates and the day table.                                                *)
(***************************************************************************)
\* date.max.toordinal(), 9999-12-31: date + timedelta beyond it raises
\* OverflowError.
MaxOrdinal == 3652059

\* date.weekday(): Monday = 0.  Ordinal 1 (0001-01-01) is a Monday.
Weekday(date) == (date + 6) % 7

DAY_MAP == [c \in {"M", "T", "W", "R", "F"} |->
              CASE c = "M" -> 0 [] c = "T" -> 1 [] c = "W" -> 2
                [] c = "R" -> 3 [] c = "F" -> 4]

\* A days element that is not a str (a number in a JSON list): it has no
\* upper().
NonStr == "#"

\* str.upper() on the one-letter strings of the model.
Upper(day) ==
    CASE day = "m" -> "M"
      [] day = "t" -> "T"
      [] day = "w" -> "W"
      [] day = "r" -> "R"
      [] day = "f" -> "F"
      [] OTHER -> day

None == -1

\* DAY_MAP.get(day.upper())
DayLookup(day) ==
    IF Upper(day) \in DOMAIN DAY_MAP THEN DAY_MAP[Upper(day)] ELSE None

DaysAheadSigned(weekday, start_weekday) == weekday - start_weekday

\* (weekday - start_dt.weekday()) % 7
DaysAhead(weekday, start_weekday) == (weekday - start_weekday) % 7

(***************************************************************************)
(* Raw events.  A date-time or date string is the record of what strptime  *)
(* makes of it: ok = FALSE is a string that does not match the format.     *)
(***************************************************************************)
RequiredKeys == <<"title", "start", "end", "days", "location", "notes", "end_date">>

AllKeys == {RequiredKeys[i] : i \in 1..Len(RequiredKeys)}

DateTimeStr(date, tod) == [ok |-> TRUE, date |-> date, tod |-> tod]
DateStr(date) == [ok |-> TRUE, date |-> date]

RawEvent(title, date, startTod, endTod, days, until) ==
    [isDict |-> TRUE, keys |-> AllKeys, title |-> title,
     start |-> DateTimeStr(date, startTod), end |-> DateTimeStr(date, endTod),
     days |-> [iterable |-> TRUE, items |-> days],
     location |-> "Rm 5", notes |-> "Prof X", end_date |-> DateStr(until),
     jsonable |-> TRUE]

\* The first key of the try block's lookups that event_data lacks, 0 if none.
FirstMissingKey(event_data) ==
    LET missing == {i \in 1..Len(RequiredKeys) : RequiredKeys[i] \notin event_data.keys}
    IN  IF missing = {} THEN 0
        ELSE CHOOSE i \in missing : \A j \in missing : i <= j

(***************************************************************************)
(* generate_ics, one event.  A calendar entry carries the uid that Event() *)
(* gives it: unique per created entry, here the event's index and the      *)
(* position of the day that made it.                                       *)
(***************************************************************************)
NewEntryEndAtStart(event_data, idx, k, first_event_date) ==
    [uid |-> <<idx, k>>, name |-> event_data.title,
     beginDate |-> first_event_date, beginTod |-> event_data.start.tod,
     endDate |-> first_event_date, endTod |-> event_data.start.tod,
     location |-> event_data.location, description |-> event_data.notes,
     until |-> event_data.end_date.date]

NewEntry(event_data, idx, k, first_event_date) ==
    [uid |-> <<idx, k>>, name |-> event_data.title,
     beginDate |-> first_event_date, beginTod |-> event_data.start.tod,
     endDate |-> first_event_date, endTod |-> event_data.end.tod,
     location |-> event_data.location, description |-> event_data.notes,
     until |-> event_data.end_date.date]

LogMissing(idx, key) == [level |-> "error", idx |-> idx, what |-> "missing", detail |-> key]
LogUnexpected(idx, why) == [level |-> "error", idx |-> idx, what |-> "unexpected", detail |-> why]
LogUnrecognized(idx, day) == [level |-> "warning", idx |-> idx, what |-> "unrecognized", detail |-> day]

\* The result of one iteration of the events loop: the entries added to
\* cal.events before the try block was left, and what was logged.
Outcome(added, log) == [added |-> added, log |-> log]

RECURSIVE DayLoopBreak(_, _, _, _, _)
DayLoopBreak(event_data, idx, k, added, log) ==
    IF k > Len(event_data.days.items) THEN Outcome(added, log)
    ELSE
      LET day == event_data.days.items[k] IN
      IF day = NonStr
      THEN Outcome(added, Append(log, LogUnexpected(idx, "AttributeError")))
      ELSE
        LET weekday == DayLookup(day) IN
        IF weekday = None
        THEN Outcome(added, Append(log, LogUnrecognized(idx, day)))
        ELSE
          LET days_ahead == DaysAhead(weekday, Weekday(event_data.start.date))
              first_event_date == event_data.start.date + days_ahead
          IN
          IF first_event_date > MaxOrdinal
          THEN Outcome(added, Append(log, LogUnexpected(idx, "OverflowError")))
          ELSE IF event_data.end.tod < event_data.start.tod
          \* Event.end's setter: "End must be after begin"
          THEN Outcome(added, Append(log, LogUnexpected(idx, "ValueError")))
          ELSE DayLoopBreak(event_data, idx, k + 1,
                       Append(added, NewEntry(event_data, idx, k, first_event_date)), log)

\* The "for day in days" loop from its k-th element on.
RECURSIVE DayLoop(_, _, _, _, _)
DayLoop(event_data, idx, k, added, log) ==
    IF k > Len(event_data.days.items) THEN Outcome(added, log)
    ELSE
      LET day == event_data.days.items[k] IN
      IF day = NonStr
      THEN Outcome(added, Append(log, LogUnexpected(idx, "AttributeError")))
      ELSE
        LET weekday == DayLookup(day) IN
        IF weekday = None
        THEN DayLoop(event_data, idx, k + 1, added, Append(log, LogUnrecognized(idx, day)))
        ELSE
          LET days_ahead == DaysAhead(weekday, Weekday(event_data.start.date))
              first_event_date == event_data.start.date + days_ahead
          IN
          IF first_event_date > MaxOrdinal
          THEN Outcome(added, Append(log, LogUnexpected(idx, "OverflowError")))
          ELSE IF event_data.end.tod < event_data.start.tod
          \* Event.end's setter: "End must be after begin"
          THEN Outcome(added, Append(log, LogUnexpected(idx, "ValueError")))
          ELSE DayLoop(event_data, idx, k + 1,
                       Append(added, NewEntry(event_data, idx, k, first_event_date)), log)

\* The body of the events loop for event number idx.
ProcessEvent(event_data, idx) ==
    IF ~event_data.isDict
    THEN Outcome(<<>>, <<LogUnexpected(idx, "TypeError")>>)
    ELSE IF FirstMissingKey(event_data) # 0
    THEN Outcome(<<>>, <<LogMissing(idx, RequiredKeys[FirstMissingKey(event_data)])>>)
    ELSE IF ~event_data.start.ok \/ ~event_data.end.ok \/ ~event_data.end_date.ok
    THEN Outcome(<<>>, <<LogUnexpected(idx, "ValueError")>>)
    ELSE IF ~event_data.days.iterable
    THEN Outcome(<<>>, <<LogUnexpected(idx, "TypeError")>>)
    ELSE DayLoop(event_data, idx, 1, <<>>, <<>>)

\* The events loop from event number idx on: the entries in the order they
\* were added, and the log.
RECURSIVE EventLoop(_, _)
EventLoop(events, idx) ==
    IF idx > Len(events) THEN Outcome(<<>>, <<>>)
    ELSE LET this == ProcessEvent(events[idx], idx)
             rest == EventLoop(events, idx + 1)
         IN  Outcome(this.added \o rest.added, this.log \o rest.log)

Range(seq) == {seq[i] : i \in 1..Len(seq)}

\* cal.events after the loop: a set.
CalEvents(events) == Range(EventLoop(events, 1).added)

\* str(cal): the entries in the set's iteration order, which is any order.
SerializeFirstOnly(cal_events) ==
    IF cal_events = {} THEN {<<>>} ELSE {<<e>> : e \in cal_events}

RECURSIVE Serializations(_)
Serializations(cal_events) ==
    IF cal_events = {} THEN {<<>>}
    ELSE UNION {{<<e>> \o rest : rest \in Serializations(cal_events \ {e})} :
                  e \in cal_events}

(***************************************************************************)
(* parse_schedule.  demjson3.decode is a library call: the model's texts   *)
(* hold a JSON body as one element, and the text decodes when it is        *)
(* exactly one body.                                                       *)
(***************************************************************************)
\* 2024-01-08, a Monday: its ordinal, 738893
Mon == 7 * 105556 + 1
Until == Mon + 74           \* 2024-03-22

Good1 == RawEvent("CS101", Mon, 540, 590, <<"M", "W">>, Until)
Good2 == RawEvent("MATH2", Mon + 1, 600, 650, <<"T">>, Until)
NoTitle == [Good1 EXCEPT !.keys = AllKeys \ {"title"}]
BadStart == [Good1 EXCEPT !.start.ok = FALSE]
BadDayElement == [Good1 EXCEPT !.days.items = <<"M", NonStr>>]
LateStart == RawEvent("LATE", MaxOrdinal - 1, 540, 590, <<"R", "M">>, MaxOrdinal)
NotADict == [Good1 EXCEPT !.isDict = FALSE, !.keys = {}]
EndBeforeStart == RawEvent("NIGHT", Mon, 1380, 60, <<"M">>, Until)
DaysNotIterable == [Good1 EXCEPT !.days = [iterable |-> FALSE, items |-> <<>>]]
\* An event holding a value json.dumps cannot serialize (a decimal.Decimal).
HasDecimal == [Good2 EXCEPT !.jsonable = FALSE]

Bodies ==
    [b \in {"{events:[e]}", "{events:[e,p]}", "{events:[d]}", "{events:[]}", "{}", "{schedule:[e]}",
            "{events:'none'}", "{events:null}", "{events:{}}", "[e]", "null", "'text'", "7"} |->
       CASE b = "{events:[e]}" -> PyDict({"events"}, PyList(<<Good2>>))
         [] b = "{events:[e,p]}" -> PyDict({"events"}, PyList(<<Good2, BadDayElement>>))
         [] b = "{events:[d]}" -> PyDict({"events"}, PyList(<<HasDecimal>>))
         [] b = "{events:[]}" -> PyDict({"events"}, PyList(<<>>))
         [] b = "{}" -> PyDict({}, PyOther("None"))
         [] b = "{schedule:[e]}" -> PyDict({"schedule"}, PyOther("None"))
         [] b = "{events:'none'}" -> PyDict({"events"}, PyOther("str"))
         [] b = "{events:null}" -> PyDict({"events"}, PyOther("None"))
         [] b = "{events:{}}" -> PyDict({"events", "other"}, PyOther("dict"))
         [] b = "[e]" -> PyNonDict("list")
         [] b = "null" -> PyNonDict("None")
         [] b = "'text'" -> PyNonDict("str")
         [] b = "7" -> PyNonDict("int")]

DecodeOk(value) == [ok |-> TRUE, value |-> value]
DecodeError == [ok |-> FALSE, value |-> PyNonDict("None")]

\* demjson3.decode(cleaned_schedule)
Decode(text) ==
    IF Len(text) = 1 /\ text[1] \in DOMAIN Bodies
    THEN DecodeOk(Bodies[text[1]])
    ELSE DecodeError

GetEventsUnchecked(schedule_dict) == schedule_dict.events

\* schedule_dict.get("events", [])
GetEvents(schedule_dict) ==
    IF "events" \in schedule_dict.keys THEN schedule_dict.events ELSE PyList(<<>>)

\* Lines 187-190 on the decoded value.
ParseDecoded(schedule_dict) ==
    IF schedule_dict.kind # "dict" THEN ParseError("AttributeError")
    ELSE IF GetEvents(schedule_dict).kind # "list"
    THEN ParseError("'events' key does not contain a list.")
    ELSE ParseOk(GetEvents(schedule_dict).items)

parse_schedule(formatted_schedule) ==
    LET decoded == Decode(clean_response(formatted_schedule))
    IN  IF ~decoded.ok THEN ParseError("JSONDecodeError")
        ELSE ParseDecoded(decoded.value)

(***************************************************************************)
(* The request handler upload_schedule and the two directories.            *)
(***************************************************************************)
Requests == {"r1", "r2"}
Ids == {"u1", "u2", "u3", "u4"}

ALLOWED_CONTENT_TYPES_WITH_GIF == {"image/jpeg", "image/png", "image/jpg", "image/gif"}

ALLOWED_CONTENT_TYPES == {"image/jpeg", "image/png", "image/jpg"}

UPLOAD_DIR == "uploads"
ICS_DIR == "ics_files"

ContentTypes == {"image/jpeg", "image/png", "image/gif"}
Extensions == {"jpg", "png", "gif"}

Path(dir, name, ext) == [dir |-> dir, name |-> name, ext |-> ext]
NoPath == Path("", "", "")

\* The responses of the model in the request specification.
Responses ==
    { <<BT, BT, BT, "j", "s", "o", "n", "\n", "{events:[e]}", "\n", BT, BT, BT>>,
      <<"{events:[e,p]}", "\n">>,
      <<"J", "S", "O", "N", ":", " ", "{}">>,
      <<"{events:'none'}">>,
      <<"{events:[d]}">>,
      <<"s", "o", " ", "{events:[e]}">> }

VARIABLES
    image,               \* the request's upload: content type and filename extension
    pc,                  \* where each request's handler is
    file_path,           \* the handler's locals
    formatted_schedule,
    events,
    ics_path,
    uploads,             \* the paths of the files in UPLOAD_DIR
    ics_files,           \* the files of ICS_DIR: path -> document
    issued,              \* the uuids uuid4() has returned
    history              \* every call and file operation, with the request that made it

request_vars == <<image, pc, file_path, formatted_schedule, events, ics_path,
                  uploads, ics_files, issued, history>>

\* The functions on their own: an input, and what the function made of it.
VARIABLES
    phase,               \* which of the values below are computed
    response_str,        \* clean_response: its input,
    cleaned,             \*   its result,
    recleaned,           \*   and the result of cleaning that again
    schedule_text,       \* parse_schedule: its input
    parse_result,              \*   and its result or error
    batch,               \* generate_ics: its events,
    cal_events,          \*   cal.events after the loop,
    log,                 \*   what the loop logged,
    document             \*   and the entries in the order str(cal) wrote them

function_vars == <<phase, response_str, cleaned, recleaned, schedule_text, parse_result,
                   batch, cal_events, log, document>>

vars == <<request_vars, function_vars>>

Did(r, op, path) == [req |-> r, op |-> op, path |-> path]

Uuid4Any(used) == Ids

\* uuid.uuid4(): a random 122-bit value, never one returned before.
Uuid4(used) == Ids \ used

\* json.dumps(events, indent=2) in the logging call of the parse block.
JsonDumpsOk(evs) == \A i \in 1..Len(evs) : evs[i].jsonable

WriteFile(files, path, doc) ==
    [p \in DOMAIN files \cup {path} |-> IF p = path THEN doc ELSE files[p]]

InitRequests ==
    /\ image \in [Requests -> [content_type : ContentTypes, ext : Extensions]]
    /\ pc = [r \in Requests |-> "validate"]
    /\ file_path = [r \in Requests |-> NoPath]
    /\ formatted_schedule = [r \in Requests |-> <<>>]
    /\ events = [r \in Requests |-> <<>>]
    /\ ics_path = [r \in Requests |-> NoPath]
    /\ uploads = {}
    /\ ics_files = [p \in {} |-> <<>>]
    /\ issued = {}
    /\ history = {}

\* Lines 68-75: the content type check, then the upload's path.
Validate(r) ==
    /\ pc[r] = "validate"
    /\ IF image[r].content_type \notin ALLOWED_CONTENT_TYPES
       THEN /\ pc' = [pc EXCEPT ![r] = "rejected"]
            /\ UNCHANGED <<file_path, issued>>
       ELSE \E unique_id \in Uuid4(issued) :
              /\ issued' = issued \cup {unique_id}
              /\ file_path' = [file_path EXCEPT ![r] = Path(UPLOAD_DIR, unique_id, image[r].ext)]
              /\ pc' = [pc EXCEPT ![r] = "save"]
    /\ UNCHANGED <<image, formatted_schedule, events, ics_path, uploads, ics_files, history>>
    /\ UNCHANGED function_vars

\* Lines 77-81: the image is written, or the write fails and leaves a file
\* or none.
SaveImage(r) ==
    /\ pc[r] = "save"
    /\ \/ /\ uploads' = uploads \cup {file_path[r]}
          /\ history' = history \cup {Did(r, "write", file_path[r])}
          /\ pc' = [pc EXCEPT ![r] = "extract"]
       \/ /\ \/ uploads' = uploads
             \/ uploads' = uploads \cup {file_path[r]}
          /\ history' = history \cup {Did(r, "write_failed", file_path[r])}
          /\ pc' = [pc EXCEPT ![r] = "save_failed"]
    /\ UNCHANGED <<image, file_path, formatted_schedule, events, ics_path, ics_files, issued>>
    /\ UNCHANGED function_vars

\* Lines 83-84 and 112-159: call_openai_api returns the stripped response,
\* or raises (the file is gone, the extension is none of jpg, jpeg, png, the
\* API call fails, or the response has no choices).
CallOpenAI(r) ==
    /\ pc[r] = "extract"
    /\ history' = history \cup {Did(r, "call_openai_api", file_path[r])}
    /\ IF file_path[r] \notin uploads \/ file_path[r].ext \notin {"jpg", "jpeg", "png"}
       THEN /\ pc' = [pc EXCEPT ![r] = "extract_except"]
            /\ UNCHANGED formatted_schedule
       ELSE \/ /\ pc' = [pc EXCEPT ![r] = "extract_except"]
               /\ UNCHANGED formatted_schedule
            \/ \E content \in Responses :
                 /\ formatted_schedule' = [formatted_schedule EXCEPT ![r] = Strip(content)]
                 /\ pc' = [pc EXCEPT ![r] = "parse"]
    /\ UNCHANGED <<image, file_path, events, ics_path, uploads, ics_files, issued>>
    /\ UNCHANGED function_vars

\* os.remove(file_path), then the HTTPException is raised.
RemoveAndRaise(r) ==
    /\ uploads' = uploads \ {file_path[r]}
    /\ history' = history \cup {Did(r, "remove", file_path[r])}
    /\ pc' = [pc EXCEPT ![r] = "failed"]
    /\ UNCHANGED <<image, file_path, formatted_schedule, events, ics_path, ics_files, issued>>
    /\ UNCHANGED function_vars

RaiseWithoutRemove(r) ==
    /\ pc' = [pc EXCEPT ![r] = "failed"]
    /\ UNCHANGED <<image, file_path, formatted_schedule, events, ics_path,
                   uploads, ics_files, issued, history>>
    /\ UNCHANGED function_vars

\* Lines 85-88
ExtractExcept(r) ==
    /\ pc[r] = "extract_except"
    /\ RemoveAndRaise(r)

\* Lines 90-92: parse_schedule, then the logging call's json.dumps.
Parse(r) ==
    /\ pc[r] = "parse"
    /\ history' = history \cup {Did(r, "parse_schedule", NoPath)}
    /\ LET parsed == parse_schedule(formatted_schedule[r]) IN
       IF parsed.ok /\ JsonDumpsOk(parsed.events)
       THEN /\ events' = [events EXCEPT ![r] = parsed.events]
            /\ pc' = [pc EXCEPT ![r] = "generate"]
       ELSE /\ pc' = [pc EXCEPT ![r] = "parse_except"]
            /\ UNCHANGED events
    /\ UNCHANGED <<image, file_path, formatted_schedule, ics_path, uploads, ics_files, issued>>
    /\ UNCHANGED function_vars

ParseExceptNoRemove(r) ==
    /\ pc[r] = "parse_except"
    /\ RaiseWithoutRemove(r)

\* Lines 93-96
ParseExcept(r) ==
    /\ pc[r] = "parse_except"
    /\ RemoveAndRaise(r)

\* Lines 98-99 and 194-240: generate_ics builds the calendar and writes it
\* under a new name, or the write fails and leaves an empty file or none.
GenerateIcs(r) ==
    /\ pc[r] = "generate"
    /\ \E id \in Uuid4(issued) :
         LET path == Path(ICS_DIR, id, "ics") IN
         /\ issued' = issued \cup {id}
         /\ \/ \E doc \in Serializations(CalEvents(events[r])) :
                 /\ ics_files' = WriteFile(ics_files, path, doc)
                 /\ history' = history \cup {Did(r, "generate_ics", NoPath), Did(r, "write", path)}
                 /\ ics_path' = [ics_path EXCEPT ![r] = path]
                 /\ pc' = [pc EXCEPT ![r] = "cleanup"]
            \/ /\ \/ ics_files' = ics_files
                  \/ ics_files' = WriteFile(ics_files, path, <<>>)
               /\ history' = history \cup {Did(r, "generate_ics", NoPath), Did(r, "write_failed", path)}
               /\ pc' = [pc EXCEPT ![r] = "generate_except"]
               /\ UNCHANGED ics_path
    /\ UNCHANGED <<image, file_path, formatted_schedule, events, uploads>>
    /\ UNCHANGED function_vars

\* Lines 100-103
GenerateExcept(r) ==
    /\ pc[r] = "generate_except"
    /\ RemoveAndRaise(r)

\* Lines 105-107: the upload is removed and the calendar file is returned.
CleanupAndRespond(r) ==
    /\ pc[r] = "cleanup"
    /\ uploads' = uploads \ {file_path[r]}
    /\ history' = history \cup {Did(r, "remove", file_path[r])}
    /\ pc' = [pc EXCEPT ![r] = "done"]
    /\ UNCHANGED <<image, file_path, formatted_schedule, events, ics_path, ics_files, issued>>
    /\ UNCHANGED function_vars

Handle(r) ==
    \/ Validate(r)
    \/ SaveImage(r)
    \/ CallOpenAI(r)
    \/ ExtractExcept(r)
    \/ Parse(r)
    \/ ParseExcept(r)
    \/ GenerateIcs(r)
    \/ GenerateExcept(r)
    \/ CleanupAndRespond(r)

NoFunctions ==
    /\ phase = "requests"
    /\ response_str = <<>>
    /\ cleaned = <<>>
    /\ recleaned = <<>>
    /\ schedule_text = <<>>
    /\ parse_result = ParseError("none")
    /\ batch = <<>>
    /\ cal_events = {}
    /\ log = <<>>
    /\ document = <<>>

NoRequests ==
    /\ image = [r \in Requests |-> [content_type |-> "image/png", ext |-> "png"]]
    /\ pc = [r \in Requests |-> "idle"]
    /\ file_path = [r \in Requests |-> NoPath]
    /\ formatted_schedule = [r \in Requests |-> <<>>]
    /\ events = [r \in Requests |-> <<>>]
    /\ ics_path = [r \in Requests |-> NoPath]
    /\ uploads = {}
    /\ ics_files = [p \in {} |-> <<>>]
    /\ issued = {}
    /\ history = {}

Init == InitRequests /\ NoFunctions

Next == \E r \in Requests : Handle(r)

\* Requests handled concurrently, their steps interleaved in any order.
Spec == Init /\ [][Next]_vars

(***************************************************************************)
(* clean_response on every text of at most MaxLen characters.              *)
(***************************************************************************)
MaxLen == 5

Chars == {" ", BT, ":", "j", "J", "s", "o", "n", "{"}

RECURSIVE SeqsUpTo(_, _)
SeqsUpTo(S, n) ==
    IF n = 0 THEN {<<>>}
    ELSE LET shorter == SeqsUpTo(S, n - 1)
         IN  shorter \cup {Append(q, x) : q \in {t \in shorter : Len(t) = n - 1}, x \in S}

InitClean ==
    /\ NoRequests
    /\ phase = "input"
    /\ response_str \in SeqsUpTo(Chars, MaxLen)
    /\ cleaned = <<>>
    /\ recleaned = <<>>
    /\ schedule_text = <<>>
    /\ parse_result = ParseError("none")
    /\ batch = <<>>
    /\ cal_events = {}
    /\ log = <<>>
    /\ document = <<>>

CleanOnce ==
    /\ phase = "input"
    /\ cleaned' = clean_response(response_str)
    /\ phase' = "once"
    /\ UNCHANGED <<response_str, recleaned, schedule_text, parse_result, batch, cal_events,
                   log, document, request_vars>>

CleanTwice ==
    /\ phase = "once"
    /\ recleaned' = clean_response(cleaned)
    /\ phase' = "twice"
    /\ UNCHANGED <<response_str, cleaned, schedule_text, parse_result, batch, cal_events,
                   log, document, request_vars>>

NextClean == CleanOnce \/ CleanTwice

SpecClean == InitClean /\ [][NextClean]_vars

(***************************************************************************)
(* parse_schedule on bodies in the wrappings a model response comes in.    *)
(***************************************************************************)
Prefixes ==
    { <<>>, Fence, Fence \o JsonWord \o <<"\n">>, JsonWord \o <<" ">>,
      <<"J", "S", "O", "N", ":", " ">>, <<" ", "\n">>, <<"s", "o", " ">> }

Suffixes == { <<>>, <<"\n">> \o Fence, Fence, <<" ">> }

Payloads == {<<b>> : b \in DOMAIN Bodies} \cup { <<>>, <<"{">>, <<"{}", "{}">> }

ScheduleTexts == {pre \o body \o post : pre \in Prefixes, body \in Payloads, post \in Suffixes}

InitParse ==
    /\ NoRequests
    /\ phase = "input"
    /\ schedule_text \in ScheduleTexts
    /\ parse_result = ParseError("none")
    /\ response_str = <<>>
    /\ cleaned = <<>>
    /\ recleaned = <<>>
    /\ batch = <<>>
    /\ cal_events = {}
    /\ log = <<>>
    /\ document = <<>>

ParseSchedule ==
    /\ phase = "input"
    /\ parse_result' = parse_schedule(schedule_text)
    /\ phase' = "parsed"
    /\ UNCHANGED <<response_str, cleaned, recleaned, schedule_text, batch, cal_events,
                   log, document, request_vars>>

NextParse == ParseSchedule

SpecParse == InitParse /\ [][NextParse]_vars

(***************************************************************************)
(* The events loop and str(cal) of generate_ics: on every single event     *)
(* with up to MaxDays days starting on one of NumStartDays consecutive     *)
(* dates, on each malformed event, and on every batch of up to MaxEvents   *)
(* events of BatchPool.                                                    *)
(***************************************************************************)
MaxDays == 3
MaxEvents == 2
NumStartDays == 7

\* The elements of a one-day days field, and those of a longer one.
DayElems == {"M", "T", "W", "R", "F", "m", "t", "w", "r", "f", "X"}
SomeDayElems == {"M", "W", "F", "w", "X"}

StartDates == {Mon + d : d \in 0..(NumStartDays - 1)}

SingleEvents ==
    {RawEvent("CS101", date, 540, 590, days, Until) :
        date \in StartDates,
        days \in SeqsUpTo(SomeDayElems, MaxDays) \cup {<<day>> : day \in DayElems}}

BatchPool == {Good1, Good2, NoTitle, BadDayElement}

MalformedEvents == {BadStart, LateStart, NotADict, EndBeforeStart, DaysNotIterable}

Batches ==
    {<<e>> : e \in SingleEvents \cup MalformedEvents} \cup SeqsUpTo(BatchPool, MaxEvents)

InitIcs ==
    /\ NoRequests
    /\ phase = "input"
    /\ batch \in Batches
    /\ cal_events = {}
    /\ log = <<>>
    /\ document = <<>>
    /\ response_str = <<>>
    /\ cleaned = <<>>
    /\ recleaned = <<>>
    /\ schedule_text = <<>>
    /\ parse_result = ParseError("none")

\* Lines 196-233
RunEventLoop ==
    /\ phase = "input"
    /\ cal_events' = CalEvents(batch)
    /\ log' = EventLoop(batch, 1).log
    /\ phase' = "expanded"
    /\ UNCHANGED <<response_str, cleaned, recleaned, schedule_text, parse_result, batch,
                   document, request_vars>>

\* Line 238: str(cal)
Serialize ==
    /\ phase = "expanded"
    /\ document' \in Serializations(cal_events)
    /\ phase' = "written"
    /\ UNCHANGED <<response_str, cleaned, recleaned, schedule_text, parse_result, batch,
                   cal_events, log, request_vars>>

NextIcs == RunEventLoop \/ Serialize

SpecIcs == InitIcs /\ [][NextIcs]_vars

(***************************************************************************)
(* Properties of the request handler, under Spec.                          *)
(***************************************************************************)
Saved(r) == Did(r, "write", file_path[r]) \in history

Called(r, op) == \E h \in history : h.req = r /\ h.op = op

\* C1: once a request whose image was saved has ended, with the calendar
\* returned or with the error of a failed extraction, parse or generation
\* raised, its image is no longer in the upload directory.
C1_ImageRemovedOnEveryExit ==
    \A r \in Requests :
        Saved(r) /\ pc[r] \in {"done", "failed"} => file_path[r] \notin uploads

\* One request has returned its calendar and another has failed in
\* parse_schedule, both after saving their images.
C1_Witness ==
    \E r1, r2 \in Requests :
        /\ pc[r1] = "done" /\ Saved(r1)
        /\ pc[r2] = "failed" /\ Saved(r2)
        /\ Called(r2, "parse_schedule") /\ ~Called(r2, "generate_ics")

JpegOrPng == {"image/jpeg", "image/jpg", "image/png"}

\* C7: a request whose content type is not JPEG/PNG never gets past the
\* check: it writes and removes no file and calls neither
\* call_openai_api, parse_schedule nor generate_ics.
C7_InvalidTypeRejectedBeforeProcessing ==
    \A r \in Requests :
        image[r].content_type \notin JpegOrPng =>
            /\ pc[r] \in {"validate", "rejected"}
            /\ file_path[r] = NoPath
            /\ \A h \in history : h.req # r

\* A GIF request has been rejected while another request has gone through.
C7_Witness ==
    \E r1, r2 \in Requests :
        /\ image[r1].content_type = "image/gif" /\ pc[r1] = "rejected"
        /\ pc[r2] = "done"

\* C8: no path is written by two requests, and no request removes a path
\* another request wrote.
C8_NoSharedPath ==
    \A h1, h2 \in history :
        /\ h1.op \in {"write", "write_failed"}
        /\ h2.op \in {"write", "write_failed", "remove"}
        /\ h1.path = h2.path
        => h1.req = h2.req

\* Two requests have both saved an image with the same extension and both
\* written a calendar file.
C8_Witness ==
    \E r1, r2 \in Requests :
        /\ r1 # r2
        /\ image[r1].ext = image[r2].ext
        /\ pc[r1] = "done" /\ pc[r2] = "done"
        /\ ics_path[r1] \in DOMAIN ics_files /\ ics_path[r2] \in DOMAIN ics_files

(***************************************************************************)
(* Properties of parse_schedule, under SpecParse.                          *)
(***************************************************************************)
Decoded == Decode(clean_response(schedule_text))

\* C2 as stated: whenever the sanitized text decodes to a structure without
\* an "events" field, parse_schedule fails.
C2_FailsWithoutEventsField ==
    phase = "parsed" /\ Decoded.ok /\ "events" \notin Decoded.value.keys
        => ~parse_result.ok

\* C2 as amended: parse_schedule fails when the sanitized text decodes to a
\* value that is not an object, or to an object whose "events" is not a
\* list; for an object without "events" it returns the empty sequence.
C2_FailsOnNonObjectOrNonList ==
    phase = "parsed" /\ Decoded.ok =>
        /\ Decoded.value.kind # "dict" => ~parse_result.ok
        /\ Decoded.value.kind = "dict" /\ "events" \in Decoded.value.keys
             /\ Decoded.value.events.kind # "list" => ~parse_result.ok
        /\ Decoded.value.kind = "dict" /\ "events" \notin Decoded.value.keys
             => parse_result.ok /\ parse_result.events = <<>>

\* A fenced object without "events" has been parsed, to the empty sequence.
C2_Witness ==
    /\ phase = "parsed"
    /\ StartsWith(schedule_text, Fence)
    /\ Decoded.ok /\ Decoded.value.kind = "dict" /\ Decoded.value.keys = {"schedule"}
    /\ parse_result.ok

(***************************************************************************)
(* Properties of clean_response, under SpecClean.                          *)
(***************************************************************************)
\* C3: cleaning the cleaned text again changes nothing.
C3_Idempotent == phase = "twice" => recleaned = cleaned

(***************************************************************************)
(* Properties of generate_ics, under SpecIcs.                              *)
(***************************************************************************)
Expanded == phase \in {"expanded", "written"}

EntriesOf(idx) == {e \in cal_events : e.uid[1] = idx}

EntryOf(idx, k) == {e \in cal_events : e.uid = <<idx, k>>}

Recognized(day) == day # NonStr /\ Upper(day) \in DOMAIN DAY_MAP

\* An event that reaches its day loop and cannot leave it by an exception:
\* a dict with the seven keys, parseable dates, an end time of day not
\* before the start's, a start at least six days before date.max, and days
\* that are strings.
WellFormedButForDays(ev) ==
    /\ ev.isDict /\ ev.keys = AllKeys
    /\ ev.start.ok /\ ev.end.ok /\ ev.end_date.ok
    /\ ev.end.tod >= ev.start.tod
    /\ ev.start.date + 6 <= MaxOrdinal
    /\ ev.days.iterable
    /\ \A k \in 1..Len(ev.days.items) : ev.days.items[k] # NonStr

AllDaysValid(ev) == \A k \in 1..Len(ev.days.items) : Recognized(ev.days.items[k])

\* C4: every entry's first-occurrence date falls on the weekday of the day
\* code that made it, is not before the event's start date and is less
\* than 7 days after it.
C4_FirstOccurrenceInStartWeek ==
    Expanded =>
        \A e \in cal_events :
            LET ev == batch[e.uid[1]]
                day == ev.days.items[e.uid[2]]
            IN  /\ Weekday(e.beginDate) = DAY_MAP[Upper(day)]
                /\ e.beginDate >= ev.start.date
                /\ e.beginDate < ev.start.date + 7

\* A Sunday start with day code M: the entry is on the Monday after it.
C4_Witness ==
    /\ Expanded
    /\ Len(batch) = 1
    /\ Weekday(batch[1].start.date) = 6
    /\ batch[1].days.items = <<"M">>
    /\ \E e \in cal_events : e.beginDate = batch[1].start.date + 1 /\ Weekday(e.beginDate) = 0

\* What C5 says of every entry of a well-formed event with valid days: one
\* entry per day code, with the event's times of day and end date.
OneEntryPerDay(idx) ==
    LET ev == batch[idx] IN
    /\ Cardinality(EntriesOf(idx)) = Len(ev.days.items)
    /\ \A k \in 1..Len(ev.days.items) :
         /\ Cardinality(EntryOf(idx, k)) = 1
         /\ \A e \in EntryOf(idx, k) :
              /\ Weekday(e.beginDate) = DAY_MAP[Upper(ev.days.items[k])]
              /\ e.beginTod = ev.start.tod
              /\ e.endTod = ev.end.tod
              /\ e.endDate = e.beginDate
              /\ e.until = ev.end_date.date

\* C5 as stated: a well-formed event with N valid day codes yields N
\* entries with the event's times of day and end date, each on a different
\* weekday.
C5_FanOutDifferentWeekdays ==
    Expanded =>
        \A idx \in 1..Len(batch) :
            WellFormedButForDays(batch[idx]) /\ AllDaysValid(batch[idx]) =>
                /\ OneEntryPerDay(idx)
                /\ \A e1, e2 \in EntriesOf(idx) :
                     e1 # e2 => Weekday(e1.beginDate) # Weekday(e2.beginDate)

\* C5 as amended: such an event yields N entries with the event's times of
\* day and end date, one per day code and on its code's weekday: on
\* different weekdays where the codes differ.
C5_FanOutOnePerDayCode ==
    Expanded =>
        \A idx \in 1..Len(batch) :
            WellFormedButForDays(batch[idx]) /\ AllDaysValid(batch[idx]) =>
                /\ OneEntryPerDay(idx)
                /\ \A e1, e2 \in EntriesOf(idx) :
                     Upper(batch[idx].days.items[e1.uid[2]]) # Upper(batch[idx].days.items[e2.uid[2]])
                        => Weekday(e1.beginDate) # Weekday(e2.beginDate)

\* The days M, W, F have made three entries on three weekdays.
C5_Witness ==
    /\ Expanded
    /\ Len(batch) = 1
    /\ batch[1].days.items = <<"M", "W", "F">>
    /\ {Weekday(e.beginDate) : e \in cal_events} = {0, 2, 4}
    /\ Cardinality(cal_events) = 3

LoggedError(idx) == \E i \in 1..Len(log) : log[i].idx = idx /\ log[i].level = "error"

\* C6: an event whose processing logged an error has no entry in the
\* calendar.
C6_SkippedEventContributesNothing ==
    Expanded => \A idx \in 1..Len(batch) : LoggedError(idx) => EntriesOf(idx) = {}

\* C9 as stated: the document's entries are in the order in which the loop
\* made them.
C9_DocumentInInputOrder ==
    phase = "written" => document = EventLoop(batch, 1).added

\* C9 as amended: the document holds exactly the entries the loop made,
\* each once, in some order.
C9_DocumentHoldsEveryEntryOnce ==
    phase = "written" =>
        /\ Len(document) = Len(EventLoop(batch, 1).added)
        /\ Range(document) = Range(EventLoop(batch, 1).added)

\* A document of two events' entries that is not in the order of the loop.
C9_Witness ==
    /\ phase = "written"
    /\ Len(batch) = 2
    /\ Len(document) = 3
    /\ document # EventLoop(batch, 1).added

\* C10: in an event that is well formed but for its days, an unrecognized
\* day is logged as a warning and makes no entry, every recognized day
\* (upper or lower case) makes its entry, and no error is logged.
C10_UnrecognizedDaySkippedAlone ==
    Expanded =>
        \A idx \in 1..Len(batch) :
            WellFormedButForDays(batch[idx]) =>
                /\ ~LoggedError(idx)
                /\ \A k \in 1..Len(batch[idx].days.items) :
                     IF Recognized(batch[idx].days.items[k])
                     THEN Cardinality(EntryOf(idx, k)) = 1
                     ELSE /\ EntryOf(idx, k) = {}
                          /\ \E i \in 1..Len(log) :
                               log[i] = LogUnrecognized(idx, batch[idx].days.items[k])

\* The days M, X, w: entries for M and for w, none for X.
C10_Witness ==
    /\ Expanded
    /\ Len(batch) = 1
    /\ batch[1].days.items = <<"M", "X", "w">>
    /\ {e.uid : e \in cal_events} = {<<1, 1>>, <<1, 3>>}

====
